---- MODULE Spec2Model ----
(***************************************************************************)
(* Model of finn.core.onnx_exec: execute_node, execute_onnx and the graph  *)
(* level execution modes.  A tensor buffer is abstracted to its shape (a   *)
(* shape id, 0 = not specified) and one value (standing for its contents). *)
(* The interpreter is a stack machine: one frame per active execute_onnx   *)
(* call, the nested call of a partition node being a frame on top of its   *)
(* caller's.                                                               *)
(***************************************************************************)
EXTENDS Integers, Sequences, FiniteSets, TLC

\* ------------------------------------------------------------ bounds
\* buffers hold a value in 0..MaxVal: 0 is the content of a fresh buffer, the
\* largest value stands for a content with a not-a-number in it
MaxVal == 1
\* fully specified shapes are the shape ids 1..NumShapes
NumShapes == 2

Shapes == 1..NumShapes
Vals == 0..MaxVal
NaN == MaxVal
Buf(s, v) == [shape |-> s, val |-> v]
Buffers == {Buf(s, v) : s \in Shapes, v \in Vals}

\* ------------------------------------------------------------ dicts
EmptyDict == [n \in {} |-> Buf(1, 0)]
\* dict.update: every key of r is set, the other keys of c are kept
DictUpdate(c, r) == [n \in (DOMAIN c) \cup (DOMAIN r) |-> IF n \in DOMAIN r THEN r[n] ELSE c[n]]
\* c[k] = v on a dict
DictSet(c, k, v) == [n \in (DOMAIN c) \cup {k} |-> IF n = k THEN v ELSE c[n]]

\* the names of a sequence of declarations / of names
NamesOf(decls) == {decls[i].name : i \in DOMAIN decls}
Range(s) == {s[i] : i \in DOMAIN s}

\* list(filter(lambda x: pred(x), seq)), order kept
RECURSIVE FilterIn(_, _)
FilterIn(decls, names) ==
  IF decls = <<>> THEN <<>>
  ELSE IF Head(decls).name \in names
       THEN <<Head(decls)>> \o FilterIn(Tail(decls), names)
       ELSE FilterIn(Tail(decls), names)

\* ------------------------------------------------------------ graphs
None == "<None>"
PartitionOp == "StreamingDataflowPartition"
CustomDomain == "finn"
\* operator tags the custom-op registry knows
RegisteredOps == {"Im2Col", PartitionOp}

VI(n, s) == [name |-> n, shape |-> s]
Node(op, dom, ins, outs, m) == [op_type |-> op, domain |-> dom, input |-> ins, output |-> outs, model |-> m]
Graph(ins, outs, vis, init, nodes, mode) == [input |-> ins, output |-> outs, value_info |-> vis, initializer |-> init, node |-> nodes, exec_mode |-> mode]

\* two generic nodes in a row, one constant input
ChainGraph ==
  Graph(<<VI("x", 1), VI("k", 1)>>, <<VI("y", 2)>>, <<VI("t", 1)>>,
        [n \in {"k"} |-> Buf(1, 1)],
        <<Node("Add", "", <<"x", "k">>, <<"t">>, ""),
          Node("Reshape", "", <<"t">>, <<"y">>, "")>>, None)

\* one generic node with two outputs, declared so that the sub-graph lists them
\* in the reverse of the node's order; exec_mode is the empty string
SplitGraph ==
  Graph(<<VI("x", 1)>>, <<VI("y", 1)>>, <<VI("t", 1)>>, EmptyDict,
        <<Node("Split", "", <<"x">>, <<"t", "y">>, "")>>, "")

\* the nested graph of ParentGraph's partition node: w exists only here, x is
\* an intermediate here and an input of the parent
ChildGraph ==
  Graph(<<VI("t", 1)>>, <<VI("u", 1)>>, <<VI("w", 1), VI("x", 1)>>, EmptyDict,
        <<Node("Mul", "", <<"t">>, <<"w", "x">>, ""),
          Node("Mul", "", <<"w">>, <<"u">>, "")>>, None)

\* a generic node reading x, then a partition node whose nested graph (child)
\* writes a tensor it calls x as well; the output is the nested graph's
ClashGraph ==
  Graph(<<VI("x", 1)>>, <<VI("u", 1)>>, <<VI("t", 1)>>, EmptyDict,
        <<Node("Add", "", <<"x">>, <<"t">>, ""),
          Node(PartitionOp, CustomDomain, <<"t">>, <<"u">>, "child")>>, None)

\* two graphs of one node with two declared outputs: the nodes differ, and the
\* second graph declares the outputs in the other order
TwoOutGraph ==
  Graph(<<VI("x", 1)>>, <<VI("y", 1), VI("z", 1)>>, <<>>, EmptyDict,
        <<Node("Split", "", <<"x">>, <<"y", "z">>, "")>>, None)
OutTwoGraph ==
  Graph(<<VI("x", 1)>>, <<VI("z", 1), VI("y", 1)>>, <<>>, EmptyDict,
        <<Node("Slice", "", <<"x">>, <<"y", "z">>, "")>>, None)

\* generic node, partition node (in the custom domain), custom node reading the
\* partition's output and a tensor only the nested graph declares
ParentGraph ==
  Graph(<<VI("x", 1)>>, <<VI("y", 1)>>, <<VI("t", 1), VI("u", 1)>>, EmptyDict,
        <<Node("Add", "", <<"x">>, <<"t">>, ""),
          Node(PartitionOp, CustomDomain, <<"t">>, <<"u">>, "child"),
          Node("Im2Col", CustomDomain, <<"u", "w">>, <<"y">>, "")>>, None)

\* a custom-domain node the registry does not know, between two generic nodes
UnresolvedGraph ==
  Graph(<<VI("x", 1)>>, <<VI("y", 1)>>, <<VI("t", 1), VI("u", 1)>>, EmptyDict,
        <<Node("Add", "", <<"x">>, <<"t">>, ""),
          Node("Nope", CustomDomain, <<"t">>, <<"u">>, ""),
          Node("Add", "", <<"u">>, <<"y">>, "")>>, None)

RemoteGraph ==
  Graph(<<VI("x", 1)>>, <<VI("y", 1)>>, <<>>, EmptyDict,
        <<Node("Add", "", <<"x">>, <<"y">>, "")>>, "remote_pynq")

RtlsimGraph ==
  Graph(<<VI("x", 1)>>, <<VI("y", 1)>>, <<>>, EmptyDict,
        <<Node("Add", "", <<"x">>, <<"y">>, "")>>, "rtlsim")

BogusModeGraph ==
  Graph(<<VI("x", 1)>>, <<VI("y", 1)>>, <<>>, EmptyDict,
        <<Node("Add", "", <<"x">>, <<"y">>, "")>>, "cppsim")

\* a tensor whose shape is not specified
UnspecGraph ==
  Graph(<<VI("x", 1)>>, <<VI("y", 1)>>, <<VI("t", 0)>>, EmptyDict,
        <<Node("Add", "", <<"x">>, <<"t">>, ""),
          Node("Add", "", <<"t">>, <<"y">>, "")>>, None)

\* a generic node followed by a partition node whose nested graph is `child`:
\* the nested graph is bound from a context that has x, t and y
PartitionOver(child) ==
  Graph(<<VI("x", 1)>>, <<VI("y", 1)>>, <<VI("t", 1)>>, EmptyDict,
        <<Node("Add", "", <<"x">>, <<"t">>, ""),
          Node(PartitionOp, CustomDomain, <<"t">>, <<"y">>, child)>>, None)

NestedOf(m) ==
  CASE m = "p_split" -> "split"
    [] m = "p_rtlsim" -> "rtlsim"
    [] m = "p_bogus" -> "bogus"
    [] m = "p_unspec" -> "unspec"
    [] m = "p_chain" -> "chain"
PartitionIds == {"p_split", "p_rtlsim", "p_bogus", "p_unspec", "p_chain"}

\* ------------------------------------------------------------ state
VARIABLES
  pc,      \* "idle", "running", "done", "failed": the top-level call
  args,    \* the top-level call's arguments
  stack,   \* the active execute_onnx calls, innermost last
  result,  \* the mapping the top-level call returned
  err,     \* the exception that ended the top-level call
  log,     \* what has been dispatched so far, in order
  checks,  \* the graphs whose shape completeness was checked, in order
  memo,    \* what the generic backend has answered so far
  outer    \* the function that called execute_onnx, and what it holds

vars == <<pc, args, stack, result, err, log, checks, memo, outer>>

\* no graph: what new_model holds before it is made; no buffer
NoGraph == Graph(<<>>, <<>>, <<>>, EmptyDict, <<>>, None)
NoBuffer == Buf(0, 0)

ModelIds == {"chain", "split", "child", "parent", "clash", "unresolved", "remote", "rtlsim", "bogus", "unspec"} \cup PartitionIds

\* ModelWrapper(path): the graph stored under a model reference
ModelWrapper(m) ==
  CASE m = "chain" -> ChainGraph
    [] m = "split" -> SplitGraph
    [] m = "child" -> ChildGraph
    [] m = "parent" -> ParentGraph
    [] m = "clash" -> ClashGraph
    [] m = "twoout" -> TwoOutGraph
    [] m = "outtwo" -> OutTwoGraph
    [] m = "unresolved" -> UnresolvedGraph
    [] m = "remote" -> RemoteGraph
    [] m = "rtlsim" -> RtlsimGraph
    [] m = "bogus" -> BogusModeGraph
    [] m = "unspec" -> UnspecGraph
    [] m \in PartitionIds -> PartitionOver(NestedOf(m))
    [] m = "new_model" -> outer.new_model

\* names a caller may bind: a declared input, a declared output and a name no
\* graph declares (bound to one buffer: nothing ever reads it)
BindNames == {"x", "y", "q"}
InputDicts ==
  {DictUpdate(d, e) : d \in UNION {[D -> Buffers] : D \in SUBSET (BindNames \ {"q"})},
                      e \in {EmptyDict, [n \in {"q"} |-> Buf(1, 0)]}}

\* ------------------------------------------------------------ ModelWrapper helpers
Decls(graph) == graph.input \o graph.output \o graph.value_info

\* model.check_all_tensor_shapes_specified()
check_all_tensor_shapes_specified(graph) == \A i \in DOMAIN Decls(graph) : Decls(graph)[i].shape # 0

DeclShape(graph, n) == (CHOOSE d \in Range(Decls(graph)) : d.name = n).shape

\* model.make_empty_exec_context(): a zero buffer of the declared shape for every
\* declared tensor, the constant for every initializer
make_empty_exec_context(graph) ==
  [n \in NamesOf(Decls(graph)) \cup DOMAIN graph.initializer |->
     IF n \in DOMAIN graph.initializer THEN graph.initializer[n]
     ELSE Buf(DeclShape(graph, n), 0)]

\* ------------------------------------------------------------ calls
NoErr == [kind |-> "none", name |-> ""]
Err(k, n) == [kind |-> k, name |-> n]
NoArgs == [model |-> "", input_dict |-> EmptyDict, full |-> FALSE]

Frame(m, ctx, full) == [model |-> m, ctx |-> ctx, full |-> full, stage |-> "mode", idx |-> 1]

Top == stack[Len(stack)]
SetTop(f) == [stack EXCEPT ![Len(stack)] = f]

\* a plain caller of execute_onnx: no graph made, nothing kept, no verdict
NoOuter ==
  [op |-> "execute_onnx", phase |-> "call", model |-> "", model_b |-> "", input_dict |-> EmptyDict,
   given |-> NoGraph, new_model |-> NoGraph,
   first |-> EmptyDict, mark |-> 0, res_a |-> NoBuffer, res_b |-> NoBuffer, verdict |-> None]

Init ==
  /\ pc = "idle"
  /\ args = NoArgs
  /\ stack = <<>>
  /\ result = EmptyDict
  /\ err = NoErr
  /\ log = <<>>
  /\ checks = <<>>
  /\ memo = {}
  /\ outer = NoOuter

\* ------------------------------------------------------------ execute_onnx, entry
\* (mutant) the binding loop without its shape comparison
BindMismatchesNone(ctx, input_dict) == {}

\* the names of input_dict the binding loop rejects
BindMismatches(ctx, input_dict) == {n \in (DOMAIN input_dict) \cap (DOMAIN ctx) : ctx[n].shape # input_dict[n].shape}

\* (mutant) the binding loop storing every provided input
BindInputsAlsoAbsent(ctx, input_dict) == DictUpdate(ctx, input_dict)

\* the binding loop when it runs to its end
BindInputs(ctx, input_dict) == [n \in DOMAIN ctx |-> IF n \in DOMAIN input_dict THEN input_dict[n] ELSE ctx[n]]

Fail(e) ==
  /\ pc' = "failed"
  /\ err' = e
  /\ UNCHANGED result

\* (mutant) the call goes on without the check of line 122
ShapeCheckSkipped(graph) == TRUE

\* line 122: the call goes on only if every tensor shape is specified
ShapeCheckPasses(graph) == check_all_tensor_shapes_specified(graph)

\* the binding loop stopped by a mismatch: the entries bound before it
BindSome(ctx, input_dict, bound) == [n \in DOMAIN ctx |-> IF n \in bound THEN input_dict[n] ELSE ctx[n]]

\* lines 122-147 of a call execute_onnx(model, input_dict, full) made with the
\* frames `below` under it.  input_dict is walked in its key order, which is the
\* caller's: a mismatch may be met after any of the matching names were bound
EnterExecuteOnnx(m, input_dict, full, below) ==
  LET graph == ModelWrapper(m)
      ctx == make_empty_exec_context(graph)
      bad == BindMismatches(ctx, input_dict)
  IN /\ checks' = Append(checks, m)
     /\ IF ~ShapeCheckPasses(graph)
        THEN /\ Fail(Err("IncompleteSpecification", ""))
             /\ stack' = below
        ELSE IF bad # {}
        THEN \E n \in bad, bound \in SUBSET (((DOMAIN input_dict) \cap (DOMAIN ctx)) \ bad) :
               /\ Fail(Err("ShapeMismatch", n))
               /\ stack' = Append(below, [Frame(m, BindSome(ctx, input_dict, bound), full) EXCEPT !.stage = "binding"])
        ELSE /\ stack' = Append(below, Frame(m, BindInputs(ctx, input_dict), full))
             /\ pc' = "running"
             /\ UNCHANGED <<result, err>>

\* a caller calls execute_onnx(model, input_dict, return_full_exec_context)
Call ==
  /\ pc = "idle"
  /\ \E m \in ModelIds, input_dict \in InputDicts, full \in BOOLEAN :
       /\ args' = [model |-> m, input_dict |-> input_dict, full |-> full]
       /\ EnterExecuteOnnx(m, input_dict, full, <<>>)
  /\ UNCHANGED <<log, memo, outer>>

\* ------------------------------------------------------------ execute_onnx, mode
Running == pc = "running" /\ stack # <<>>
TopGraph == ModelWrapper(Top.model)
Depth == Len(stack)

\* model.get_metadata_prop("exec_mode")
get_exec_mode(graph) == graph.exec_mode

\* (mutant) the nodes are walked for the simulation flag as well
NodeByNodeModeOrRtlsim(mode) == (mode = None) \/ (mode = "") \/ (mode = "rtlsim")

\* line 154: the flag is unset or empty
NodeByNodeMode(mode) == (mode = None) \/ (mode = "")

OffloadEvent(k) == [kind |-> k, depth |-> Depth, model |-> Top.model, idx |-> 0, branch |-> k, reads |-> Top.ctx]

\* lines 154-159: no execution mode set, the nodes are walked
SelectNodeByNode ==
  /\ Running /\ Top.stage = "mode"
  /\ NodeByNodeMode(get_exec_mode(TopGraph))
  /\ stack' = SetTop([Top EXCEPT !.stage = "nodes"])
  /\ UNCHANGED <<pc, args, result, err, log, checks, memo, outer>>

\* what an offload collaborator may leave in the context: it populates the
\* declared outputs in place
Populate(ctx, graph, outs) == [n \in DOMAIN ctx |-> IF n \in NamesOf(graph.output) THEN outs[n] ELSE ctx[n]]

Offload(mode, kind) ==
  /\ Running /\ Top.stage = "mode"
  /\ get_exec_mode(TopGraph) = mode
  /\ log' = Append(log, OffloadEvent(kind))
  /\ \/ /\ Fail(Err("BackendFailure", kind))
        /\ UNCHANGED stack
     \/ \E outs \in [NamesOf(TopGraph.output) -> Buffers] :
          /\ stack' = SetTop([Top EXCEPT !.stage = "offloaded", !.ctx = Populate(Top.ctx, TopGraph, outs)])
          /\ UNCHANGED <<pc, result, err>>
  /\ UNCHANGED <<args, checks, memo, outer>>

\* (mutant) the remote collaborator invoked for the simulation flag
RemoteExecOnRtlsim == Offload("rtlsim", "remote_exec")

\* lines 160-162: remote_exec(model, execution_context)
RemoteExec == Offload("remote_pynq", "remote_exec")

\* lines 163-165: rtlsim_exec(model, execution_context)
RtlsimExec == Offload("rtlsim", "rtlsim_exec")

\* (mutant) an unknown flag treated as unset
UnknownModeFallsBack ==
  /\ Running /\ Top.stage = "mode"
  /\ ~NodeByNodeMode(get_exec_mode(TopGraph))
  /\ get_exec_mode(TopGraph) \notin {"remote_pynq", "rtlsim"}
  /\ stack' = SetTop([Top EXCEPT !.stage = "nodes"])
  /\ UNCHANGED <<pc, args, result, err, log, checks, memo, outer>>

\* lines 166-171: any other value of the flag
UnknownMode ==
  /\ Running /\ Top.stage = "mode"
  /\ ~NodeByNodeMode(get_exec_mode(TopGraph))
  /\ get_exec_mode(TopGraph) \notin {"remote_pynq", "rtlsim"}
  /\ Fail(Err("UnknownExecutionMode", ""))
  /\ UNCHANGED <<args, stack, log, checks, memo, outer>>

\* ------------------------------------------------------------ execute_node
\* (mutant) a walk that skips every second node
NextIdxSkip(idx) == idx + 2

\* line 158, for node in graph.node: the node visited after node idx
NextIdx(idx) == idx + 1

AtNode == Running /\ Top.stage = "nodes" /\ Top.idx <= Len(TopGraph.node)
CurNode == TopGraph.node[Top.idx]

IsPartition(node) == node.op_type = PartitionOp
IsCustom(node) == ~IsPartition(node) /\ node.domain = CustomDomain
\* (mutant) a custom-domain node without a handler falls back to the backend
IsGenericOrUnresolved(node) == ~IsPartition(node) /\ (node.domain # CustomDomain \/ node.op_type \notin RegisteredOps)
IsGeneric(node) == ~IsPartition(node) /\ node.domain # CustomDomain

\* the context entries a node reads
Reads(node, ctx) == [n \in Range(node.input) \cap DOMAIN ctx |-> ctx[n]]

NodeEvent(branch) == [kind |-> "node", depth |-> Depth, model |-> Top.model, idx |-> Top.idx, branch |-> branch, reads |-> Reads(CurNode, Top.ctx)]

\* lines 68-71 and 72-75: the declarations of the single-node graph
SubgraphInputs(node, graph) == FilterIn(graph.input, Range(node.input)) \o FilterIn(graph.value_info, Range(node.input))
SubgraphOutputs(node, graph) == FilterIn(graph.output, Range(node.output)) \o FilterIn(graph.value_info, Range(node.output))

\* (mutant) the backend's list indexed by the position of outp in node.output
ListIndPositional(outp, output_ind, node_outputs, prev) == output_ind

\* lines 95-97: the last index of node_outputs whose name is outp; the index of
\* the previous iteration when there is none (0: not yet assigned)
ListInd(outp, output_ind, node_outputs, prev) ==
  LET hits == {i \in DOMAIN node_outputs : node_outputs[i].name = outp}
  IN IF hits = {} THEN prev ELSE CHOOSE i \in hits : \A j \in hits : j <= i

\* (mutant) a buffer of another shape is stored all the same
ShapesDisagreeNever(found, expected) == FALSE

\* line 100: output_list[list_ind].shape != context[outp].shape
ShapesDisagree(found, expected) == found.shape # expected.shape

\* lines 90-109 from output_ind on: the context the loop leaves and how it ends
RECURSIVE StoreOutputs(_, _, _, _, _, _)
StoreOutputs(node, node_outputs, output_list, ctx, output_ind, prev) ==
  IF output_ind > Len(node.output) THEN [ctx |-> ctx, err |-> NoErr]
  ELSE LET outp == node.output[output_ind]
           list_ind == ListInd(outp, output_ind, node_outputs, prev)
       IN IF list_ind = 0 THEN [ctx |-> ctx, err |-> Err("UnboundLocalError", outp)]
          ELSE IF list_ind > Len(output_list) THEN [ctx |-> ctx, err |-> Err("IndexError", outp)]
          ELSE IF outp \notin DOMAIN ctx THEN [ctx |-> ctx, err |-> Err("KeyError", outp)]
          ELSE IF ShapesDisagree(output_list[list_ind], ctx[outp])
               THEN [ctx |-> ctx, err |-> Err("AttributeError", outp)]
          ELSE StoreOutputs(node, node_outputs, output_list,
                            DictSet(ctx, outp, output_list[list_ind]), output_ind + 1, list_ind)

\* (mutant) a failing node puts the context back to its freshly created state
FailNodeRollback(e, ctx) ==
  /\ Fail(e)
  /\ stack' = SetTop([Top EXCEPT !.ctx = make_empty_exec_context(TopGraph)])

\* (mutant) a failing node leaves what it has computed in its callers' contexts
FailNodeLeak(e, ctx) ==
  /\ Fail(e)
  /\ stack' = [d \in DOMAIN stack |-> IF d < Depth THEN [stack[d] EXCEPT !.ctx = DictUpdate(@, ctx)]
                                                  ELSE [Top EXCEPT !.ctx = ctx]]

\* a failing node: the exception leaves every active call
FailNode(e, ctx) ==
  /\ Fail(e)
  /\ stack' = SetTop([Top EXCEPT !.ctx = ctx])

\* lines 59-109: the node goes through the generic backend, which returns one
\* buffer per output of the single-node graph, in that graph's output order
GenericEvent(node_outputs, output_list) == NodeEvent("generic") @@ [node_outputs |-> node_outputs, output_list |-> output_list]

\* lines 83-88: sess.run(None, input_dict) on the single-node model.  The
\* backend is a function of the node, of the names its graph declares as outputs
\* and of the input buffers: asked again, it answers as before; asked for the
\* first time, it fails or returns one buffer per declared output.
\* A model that declares one name twice is not what the backend is specified
\* for: it may be rejected.
Duplicated(decls) == \E i \in DOMAIN decls : \E j \in DOMAIN decls : i # j /\ decls[i].name = decls[j].name
Asked(node, names, input_dict) == {t \in memo : t.node = node /\ t.reads = input_dict /\ t.names = names}
SessRun(node, node_inputs, node_outputs, input_dict) ==
  LET names == NamesOf(node_outputs)
      before == Asked(node, names, input_dict)
      rejected == [ok |-> FALSE, res |-> EmptyDict]
  IN (IF before # {} THEN {[ok |-> t.ok, res |-> t.res] : t \in before}
      ELSE {rejected} \cup {[ok |-> TRUE, res |-> r] : r \in [names -> Buffers]})
     \cup (IF Duplicated(node_inputs) \/ Duplicated(node_outputs) THEN {rejected} ELSE {})

ExecuteGenericNode ==
  /\ AtNode /\ IsGeneric(CurNode)
  /\ LET node_outputs == SubgraphOutputs(CurNode, TopGraph)
     IN IF ~(Range(CurNode.input) \subseteq DOMAIN Top.ctx)
        THEN /\ \E n \in Range(CurNode.input) \ DOMAIN Top.ctx : FailNode(Err("KeyError", n), Top.ctx)
             /\ log' = Append(log, GenericEvent(node_outputs, <<>>))
             /\ UNCHANGED memo
        ELSE \E a \in SessRun(CurNode, SubgraphInputs(CurNode, TopGraph), node_outputs, Reads(CurNode, Top.ctx)) :
               /\ memo' = IF Asked(CurNode, NamesOf(node_outputs), Reads(CurNode, Top.ctx)) # {} THEN memo
                          ELSE memo \cup {[node |-> CurNode, reads |-> Reads(CurNode, Top.ctx), names |-> NamesOf(node_outputs), ok |-> a.ok, res |-> a.res]}
               /\ IF ~a.ok
                  THEN /\ FailNode(Err("BackendFailure", "onnxruntime"), Top.ctx)
                       /\ log' = Append(log, GenericEvent(node_outputs, <<>>))
                  ELSE LET output_list == [i \in DOMAIN node_outputs |-> a.res[node_outputs[i].name]]
                           r == StoreOutputs(CurNode, node_outputs, output_list, Top.ctx, 1, 0)
                       IN /\ log' = Append(log, GenericEvent(node_outputs, output_list))
                          /\ IF r.err # NoErr THEN FailNode(r.err, r.ctx)
                             ELSE /\ stack' = SetTop([Top EXCEPT !.ctx = r.ctx, !.idx = NextIdx(@)])
                                  /\ UNCHANGED <<pc, result, err>>
  /\ UNCHANGED <<args, checks, outer>>

\* execute_custom_node(node, context, graph): the handler is looked up by
\* operator tag; it reads its inputs from the context and writes its outputs
\* into it.  The ways the call can end: the context it leaves and the exception
custom_op_registered(op_type) == op_type \in RegisteredOps
execute_custom_node(node, context) ==
  IF ~custom_op_registered(node.op_type)
  THEN {[ctx |-> context, err |-> Err("UnresolvedOperator", node.op_type)]}
  ELSE IF ~(Range(node.input) \subseteq DOMAIN context)
  THEN {[ctx |-> context, err |-> Err("KeyError", n)] : n \in Range(node.input) \ DOMAIN context}
  ELSE {[ctx |-> context, err |-> Err("HandlerFailure", node.op_type)]}
       \cup {[ctx |-> DictUpdate(context, outs), err |-> NoErr] : outs \in [Range(node.output) -> Buffers]}

\* lines 55-57: a node of the custom domain goes to execute_custom_node, whose
\* exception, if any, leaves execute_node
ExecuteCustomNode ==
  /\ AtNode /\ IsCustom(CurNode)
  /\ log' = Append(log, NodeEvent("custom"))
  /\ \E r \in execute_custom_node(CurNode, Top.ctx) :
       IF r.err # NoErr THEN FailNode(r.err, r.ctx)
       ELSE /\ stack' = SetTop([Top EXCEPT !.ctx = r.ctx, !.idx = NextIdx(@)])
            /\ UNCHANGED <<pc, result, err>>
  /\ UNCHANGED <<args, checks, memo, outer>>

\* lines 49-52: the nested graph is loaded and execute_onnx(model, context, True)
\* is entered with the caller's context as its input_dict
ExecutePartitionNode ==
  /\ AtNode /\ IsPartition(CurNode)
  /\ log' = Append(log, NodeEvent("partition") @@ [context |-> Top.ctx])
  /\ EnterExecuteOnnx(CurNode.model, Top.ctx, TRUE, stack)
  /\ UNCHANGED <<args, memo, outer>>

\* ------------------------------------------------------------ execute_onnx, return
Finished == Running /\ (Top.stage = "offloaded" \/ (Top.stage = "nodes" /\ Top.idx > Len(TopGraph.node)))

\* (mutant) the projection made whatever return_full_exec_context is
ReturnValueOutputsOnly(graph, ctx, full) == [n \in NamesOf(graph.output) |-> ctx[n]]

\* lines 173-181: the whole context, or its entries for graph.output
ReturnValue(graph, ctx, full) == IF full THEN ctx ELSE [n \in NamesOf(graph.output) |-> ctx[n]]

\* (mutant) only the names the caller already has are taken from ret
MergeNestedDeclaredOnly(context, ret) == [n \in DOMAIN context |-> IF n \in DOMAIN ret THEN ret[n] ELSE context[n]]
\* (mutant) the caller's context is replaced by ret
MergeNestedReplace(context, ret) == ret

\* line 53: context.update(ret)
MergeNested(context, ret) == DictUpdate(context, ret)

MergeEvent(ret) == [kind |-> "merge", depth |-> Depth - 1, model |-> stack[Depth - 1].model, idx |-> stack[Depth - 1].idx, branch |-> "partition", reads |-> stack[Depth - 1].ctx, ret |-> ret]

\* the top-level call returns its mapping
ReturnTop ==
  /\ Finished /\ Depth = 1
  /\ result' = ReturnValue(TopGraph, Top.ctx, Top.full)
  /\ pc' = "done"
  /\ stack' = SetTop([Top EXCEPT !.stage = "returned"])
  /\ UNCHANGED <<args, err, log, checks, memo, outer>>

\* a nested call returns to execute_node, which merges (line 53); the caller
\* goes on with its next node
ReturnNested ==
  /\ Finished /\ Depth > 1
  /\ LET ret == ReturnValue(TopGraph, Top.ctx, Top.full)
         caller == stack[Depth - 1]
     IN /\ stack' = Append(SubSeq(stack, 1, Depth - 2), [caller EXCEPT !.ctx = MergeNested(caller.ctx, ret), !.idx = NextIdx(@)])
        /\ log' = Append(log, MergeEvent(ret))
  /\ UNCHANGED <<pc, args, result, err, checks, memo, outer>>

Next ==
  \/ Call
  \/ SelectNodeByNode
  \/ RemoteExec
  \/ RtlsimExec
  \/ UnknownMode
  \/ ExecuteGenericNode
  \/ ExecuteCustomNode
  \/ ExecutePartitionNode
  \/ ReturnTop
  \/ ReturnNested

Spec == Init /\ [][Next]_vars

\* ------------------------------------------------------------ execute_onnx_and_make_model
\* (mutant) no constant is recorded
SetInitializersNone(graph, ctx, todo) == graph

\* (mutant) new_model is the caller's object
copy_shared(graph) == [graph |-> graph, shared |-> TRUE]

\* line 192: copy.deepcopy(model) is a new object with the same content
copy_deepcopy(graph) == [graph |-> graph, shared |-> FALSE]

\* ModelWrapper.set_initializer(name, value): the constant of that name is set
set_initializer(graph, name, value) == [graph EXCEPT !.initializer = DictSet(@, name, value)]

\* lines 194-195: one set_initializer per key of the execution context
RECURSIVE SetInitializers(_, _, _)
SetInitializers(graph, ctx, todo) ==
  IF todo = {} THEN graph
  ELSE LET i == CHOOSE n \in todo : TRUE
       IN SetInitializers(set_initializer(graph, i, ctx[i]), ctx, todo \ {i})

\* lines 196-197: every value_info is appended to graph.output
AppendValueInfo(graph) == [graph EXCEPT !.output = @ \o graph.value_info]

\* inputs of the calls made through execute_onnx_and_make_model
MakeInputDicts == {d \in InputDicts : DOMAIN d \subseteq {"x"}}

\* line 191: execute_onnx(model, input_dict, True)
CallMake ==
  /\ pc = "idle"
  /\ \E m \in ModelIds, input_dict \in MakeInputDicts :
       /\ args' = [model |-> m, input_dict |-> input_dict, full |-> TRUE]
       /\ outer' = [NoOuter EXCEPT !.op = "execute_onnx_and_make_model", !.phase = "execute", !.model = m, !.given = ModelWrapper(m)]
       /\ EnterExecuteOnnx(m, input_dict, TRUE, <<>>)
  /\ UNCHANGED <<log, memo>>

\* lines 192-199: the copy gets its constants and its outputs and is returned;
\* `given` is the caller's graph object after the call
MakeModel ==
  /\ pc = "done" /\ outer.op = "execute_onnx_and_make_model" /\ outer.phase = "execute"
  /\ LET c == copy_deepcopy(outer.given)
         new_model == AppendValueInfo(SetInitializers(c.graph, result, DOMAIN result))
     IN outer' = [outer EXCEPT !.phase = "returned", !.new_model = new_model, !.first = result,
                               !.given = IF c.shared THEN new_model ELSE @]
  /\ UNCHANGED <<pc, args, stack, result, err, log, checks, memo>>

\* the caller executes the graph it was returned, with no input
Replay ==
  /\ pc = "done" /\ outer.op = "execute_onnx_and_make_model" /\ outer.phase = "returned"
  /\ \E full \in BOOLEAN :
       /\ args' = [model |-> "new_model", input_dict |-> EmptyDict, full |-> full]
       /\ EnterExecuteOnnx("new_model", EmptyDict, full, <<>>)
  /\ outer' = [outer EXCEPT !.phase = "replay", !.mark = Len(log)]
  /\ UNCHANGED <<log, memo>>

InitMake == Init

NextMake ==
  \/ CallMake
  \/ SelectNodeByNode
  \/ RemoteExec
  \/ RtlsimExec
  \/ UnknownMode
  \/ ExecuteGenericNode
  \/ ExecuteCustomNode
  \/ ExecutePartitionNode
  \/ ReturnTop
  \/ ReturnNested
  \/ MakeModel
  \/ Replay

SpecMake == InitMake /\ [][NextMake]_vars


\* ------------------------------------------------------------ compare_execution
\* (mutant) the last item of the returned dict
LastItem(graph, output_dict) == output_dict[graph.output[Len(graph.output)].name]

\* list(output_dict.items())[0][1]: the dict of lines 177-180 is filled in the
\* order of graph.output, its first item is the first declared output's
FirstItem(graph, output_dict) == output_dict[graph.output[1].name]

\* the default compare_fxn, np.isclose(x, y, atol=1e-3).all(): on buffers of one
\* shape, whether the values agree, and not-a-number agrees with nothing; on
\* two shapes numpy broadcasts or raises
compare_fxn(x, y) ==
  IF x.shape = y.shape THEN {IF x.val = y.val /\ x.val # NaN THEN "true" ELSE "false"}
  ELSE {"true", "false", "ValueError"}

\* the pairs of graphs compared: every graph with itself, and graphs that
\* differ in their nodes, in the order of their outputs, in their flag
ComparePairs ==
  {<<m, m>> : m \in ModelIds \cup {"twoout", "outtwo"}}
    \cup {<<"twoout", "outtwo">>, <<"outtwo", "twoout">>, <<"split", "twoout">>, <<"chain", "split">>, <<"remote", "rtlsim">>}
CompareInputDicts == {d \in InputDicts : DOMAIN d \subseteq {"x"}}

\* line 212: execute_onnx(model_a, input_dict)
CallCompare ==
  /\ pc = "idle"
  /\ \E p \in ComparePairs, input_dict \in CompareInputDicts :
       /\ args' = [model |-> p[1], input_dict |-> input_dict, full |-> FALSE]
       /\ outer' = [NoOuter EXCEPT !.op = "compare_execution", !.phase = "a", !.model = p[1], !.model_b = p[2], !.input_dict = input_dict]
       /\ EnterExecuteOnnx(p[1], input_dict, FALSE, <<>>)
  /\ UNCHANGED <<log, memo>>

\* lines 212-213: res_a is taken from the first result, then
\* execute_onnx(model_b, input_dict) is called
CompareSecond ==
  /\ pc = "done" /\ outer.op = "compare_execution" /\ outer.phase = "a"
  /\ IF ModelWrapper(outer.model).output = <<>>
     THEN /\ Fail(Err("IndexError", ""))
          /\ outer' = [outer EXCEPT !.phase = "raised"]
          /\ UNCHANGED <<args, stack, checks>>
     ELSE /\ args' = [model |-> outer.model_b, input_dict |-> outer.input_dict, full |-> FALSE]
          /\ outer' = [outer EXCEPT !.phase = "b", !.res_a = FirstItem(ModelWrapper(outer.model), result),
                                    !.first = result, !.mark = Len(log)]
          /\ EnterExecuteOnnx(outer.model_b, outer.input_dict, FALSE, <<>>)
  /\ UNCHANGED <<log, memo>>

\* lines 213-214: res_b is taken from the second result and compare_fxn is
\* applied; its exception, if any, is the caller's
CompareReturn ==
  /\ pc = "done" /\ outer.op = "compare_execution" /\ outer.phase = "b"
  /\ IF ModelWrapper(outer.model_b).output = <<>>
     THEN /\ Fail(Err("IndexError", ""))
          /\ outer' = [outer EXCEPT !.phase = "raised"]
     ELSE LET res_b == FirstItem(ModelWrapper(outer.model_b), result)
          IN \E v \in compare_fxn(outer.res_a, res_b) :
               /\ outer' = [outer EXCEPT !.phase = "returned", !.res_b = res_b, !.verdict = v]
               /\ IF v = "ValueError" THEN Fail(Err("ValueError", "")) ELSE UNCHANGED <<pc, result, err>>
  /\ UNCHANGED <<args, stack, log, checks, memo>>

InitCompare == Init

NextCompare ==
  \/ CallCompare
  \/ SelectNodeByNode
  \/ RemoteExec
  \/ RtlsimExec
  \/ UnknownMode
  \/ ExecuteGenericNode
  \/ ExecuteCustomNode
  \/ ExecutePartitionNode
  \/ ReturnTop
  \/ ReturnNested
  \/ CompareSecond
  \/ CompareReturn

SpecCompare == InitCompare /\ [][NextCompare]_vars

\* ------------------------------------------------------------ claims
ArgGraph == ModelWrapper(args.model)
ArgMode == get_exec_mode(ArgGraph)
\* the context of the top-level call once its inputs are bound
ArgContext == BindInputs(make_empty_exec_context(ArgGraph), args.input_dict)
LastEvent == log[Len(log)]
NodeOf(e) == ModelWrapper(e.model).node[e.idx]
TopEvents == SelectSeq(log, LAMBDA e : e.depth = 1)
TopNodeEvents == SelectSeq(log, LAMBDA e : e.depth = 1 /\ e.kind = "node")

\* C1: a top-level call that creates its context and is given an input whose
\* shape differs from the pre-allocated shape of a name of that context fails
\* with ShapeMismatch for such a name; the mismatched value is not in the
\* context, nothing was dispatched or offloaded and nothing is returned.
C1_Mismatched ==
  LET fresh == make_empty_exec_context(ArgGraph)
  IN {n \in DOMAIN args.input_dict : n \in DOMAIN fresh /\ args.input_dict[n].shape # fresh[n].shape}
C1_ShapeMismatchOnBind ==
  (pc # "idle" /\ check_all_tensor_shapes_specified(ArgGraph) /\ C1_Mismatched # {}) =>
     /\ pc = "failed"
     /\ err.kind = "ShapeMismatch" /\ err.name \in C1_Mismatched
     /\ log = <<>>
     /\ result = EmptyDict
     /\ Len(stack) = 1 /\ stack[1].stage = "binding"
     /\ \A n \in C1_Mismatched : stack[1].ctx[n] # args.input_dict[n]

\* a mismatch met after another input of the same call was bound
C1_Witness ==
  /\ pc = "failed" /\ err.kind = "ShapeMismatch" /\ Len(stack) = 1
  /\ \E n \in (DOMAIN args.input_dict) \cap (DOMAIN stack[1].ctx) :
       n # err.name /\ stack[1].ctx[n] = args.input_dict[n] /\ args.input_dict[n].val = 1

\* C2: right after a generic-backend node completed, the context holds for each
\* declared output name of the node the buffer the backend returned at the
\* position of that name in the single-node graph's outputs, whatever that
\* order is relative to the node's own output order (graphs in which every
\* node output is declared in graph.output or graph.value_info).
JustCompletedGeneric ==
  /\ pc \in {"running", "done"} /\ log # <<>>
  /\ LastEvent.kind = "node" /\ LastEvent.branch = "generic"
  /\ LastEvent.depth = Depth /\ Top.idx = LastEvent.idx + 1
C2_OutputsByName ==
  JustCompletedGeneric =>
     \A outp \in Range(NodeOf(LastEvent).output) :
        \E i \in DOMAIN LastEvent.node_outputs :
           /\ LastEvent.node_outputs[i].name = outp
           /\ Top.ctx[outp] = LastEvent.output_list[i]

\* the backend's list is in the reverse of the node's output order and its two
\* buffers differ
C2_Witness ==
  /\ JustCompletedGeneric
  /\ Len(NodeOf(LastEvent).output) = 2
  /\ LastEvent.node_outputs[1].name = NodeOf(LastEvent).output[2]
  /\ LastEvent.node_outputs[2].name = NodeOf(LastEvent).output[1]
  /\ LastEvent.output_list[1] # LastEvent.output_list[2]

\* C3: in node-by-node mode the top-level call dispatches node 1, 2, ... of the
\* graph in that order, each once; node i+1 is dispatched only after node i
\* completed (a partition node: after its nested call was merged); a call that
\* returns has dispatched every node.
C3_SequentialOrder ==
  (pc # "idle" /\ NodeByNodeMode(ArgMode)) =>
     /\ \A i \in DOMAIN TopNodeEvents : TopNodeEvents[i].idx = i /\ TopNodeEvents[i].model = args.model
     /\ Len(TopNodeEvents) <= Len(ArgGraph.node)
     /\ pc = "done" => Len(TopNodeEvents) = Len(ArgGraph.node)
     /\ \A j \in DOMAIN log :
          (log[j].depth = 1 /\ log[j].kind = "node" /\ log[j].idx > 1 /\ IsPartition(ArgGraph.node[log[j].idx - 1])) =>
             \E k \in 1..(j - 1) : log[k].kind = "merge" /\ log[k].depth = 1 /\ log[k].idx = log[j].idx - 1

\* a three-node graph with a partition node ran to its end
C3_Witness ==
  /\ pc = "done" /\ NodeByNodeMode(ArgMode)
  /\ Len(TopNodeEvents) = 3
  /\ \E i \in DOMAIN TopNodeEvents : TopNodeEvents[i].branch = "partition"

\* C4: a call runs the one strategy its graph's exec_mode selects: nodes are
\* dispatched only for a graph whose flag is unset or empty, each collaborator
\* is invoked only for a graph with its flag; an offloading top-level call that
\* returns has invoked its collaborator exactly once, with its graph and its
\* context, and dispatched no node; a node-by-node top-level call invokes no
\* collaborator.
C4_OneStrategy ==
  pc # "idle" =>
     /\ \A j \in DOMAIN log :
          LET mode == get_exec_mode(ModelWrapper(log[j].model))
          IN /\ log[j].kind \in {"node", "merge"} => NodeByNodeMode(mode)
             /\ log[j].kind = "remote_exec" => mode = "remote_pynq"
             /\ log[j].kind = "rtlsim_exec" => mode = "rtlsim"
     /\ NodeByNodeMode(ArgMode) => \A i \in DOMAIN TopEvents : TopEvents[i].kind \in {"node", "merge"}
     /\ ArgMode \in {"remote_pynq", "rtlsim"} =>
          /\ Len(log) <= 1
          /\ pc = "done" =>
               /\ Len(log) = 1
               /\ log[1].kind = (IF ArgMode = "remote_pynq" THEN "remote_exec" ELSE "rtlsim_exec")
               /\ log[1].model = args.model /\ log[1].depth = 1
               /\ log[1].reads = ArgContext

\* the remote collaborator was invoked and the call returned
C4_Witness == pc = "done" /\ ArgMode = "remote_pynq" /\ Len(log) = 1 /\ log[1].kind = "remote_exec"

\* C5: with any other value of the flag the call never returns, dispatches
\* nothing and invokes no collaborator; once its inputs are bound its only
\* step is to fail with the configuration error.
C5_UnknownModeFatal ==
  (pc # "idle" /\ ~NodeByNodeMode(ArgMode) /\ ArgMode \notin {"remote_pynq", "rtlsim"}) =>
     /\ pc # "done"
     /\ log = <<>>
     /\ result = EmptyDict
     /\ \A d \in DOMAIN stack : stack[d].stage \in {"binding", "mode"}
     /\ pc = "running" => ENABLED UnknownMode
     /\ (pc = "failed" /\ stack # <<>> /\ Top.stage = "mode") => err.kind = "UnknownExecutionMode"

C5_Witness == pc = "failed" /\ err.kind = "UnknownExecutionMode" /\ ArgMode = "cppsim"

\* C6: a returned mapping is, without return_full_exec_context, keyed by exactly
\* the graph's declared outputs with the final context's value of each; with
\* it, the whole final context, which has every declared tensor and constant.
C6_ReturnedMapping ==
  pc = "done" =>
     /\ ~args.full =>
          /\ DOMAIN result = NamesOf(ArgGraph.output)
          /\ \A n \in DOMAIN result : result[n] = stack[1].ctx[n]
     /\ args.full =>
          /\ result = stack[1].ctx
          /\ (NamesOf(Decls(ArgGraph)) \cup DOMAIN ArgGraph.initializer) \subseteq DOMAIN result

\* the projection dropped entries of the context and kept a computed output
C6_Witness ==
  /\ pc = "done" /\ ~args.full
  /\ DOMAIN result # DOMAIN stack[1].ctx
  /\ \E n \in DOMAIN result : result[n].val = 1
\* C7: right after a partition node executed, every entry of the nested
\* execution's final context is in the parent context with that value, and a
\* later node of the parent that reads such a name reads that value, as long
\* as no node of the parent wrote the name in between; the name need not be
\* declared in the parent graph.
JustMerged ==
  /\ pc \in {"running", "done"} /\ log # <<>>
  /\ LastEvent.kind = "merge"
  /\ LastEvent.depth = Depth /\ Top.idx = LastEvent.idx + 1
WrittenBy(e) == IF e.kind = "merge" THEN DOMAIN e.ret ELSE IF e.branch = "partition" THEN {} ELSE Range(NodeOf(e).output)
WrittenBetween(j, k) == UNION {WrittenBy(log[i]) : i \in {i \in (j + 1)..(k - 1) : log[i].depth = log[j].depth}}
SameCall(j, k) == log[k].depth = log[j].depth /\ \A i \in j..k : log[i].depth >= log[j].depth
C7_NestedResultsVisible ==
  /\ JustMerged => \A n \in DOMAIN LastEvent.ret : n \in DOMAIN Top.ctx /\ Top.ctx[n] = LastEvent.ret[n]
  /\ \A j \in DOMAIN log : \A k \in DOMAIN log :
       (j < k /\ log[j].kind = "merge" /\ log[k].kind = "node" /\ SameCall(j, k)) =>
          \A n \in (Range(NodeOf(log[k]).input) \cap DOMAIN log[j].ret) \ WrittenBetween(j, k) :
             n \in DOMAIN log[k].reads /\ log[k].reads[n] = log[j].ret[n]

\* a parent node read a computed tensor that only the nested graph declares
C7_Witness ==
  \E j \in DOMAIN log : \E k \in DOMAIN log :
     /\ j < k /\ log[j].kind = "merge" /\ log[k].kind = "node" /\ SameCall(j, k)
     /\ \E n \in DOMAIN log[k].reads :
          /\ n \in DOMAIN log[j].ret
          /\ n \notin NamesOf(Decls(ModelWrapper(log[k].model)))
          /\ log[k].reads[n].val = 1

\* C8, as claimed: the merge touches only the partition node's declared
\* outputs; every other entry of the parent context keeps its value and no
\* other name is added.
C8_OnlyDeclaredOutputsMerged ==
  JustMerged =>
     LET before == LastEvent.reads
         outs == Range(NodeOf(LastEvent).output)
     IN /\ DOMAIN Top.ctx \subseteq (DOMAIN before) \cup outs
        /\ \A n \in (DOMAIN before) \ outs : Top.ctx[n] = before[n]

\* C8, amended: the merge sets every name of the full context the nested call
\* returned (which has every tensor the nested graph declares) to its nested
\* value, adding the names the parent did not have; the parent entries whose
\* names are not in that context keep their values and no other name is added.
C8_WholeNestedContextMerged ==
  JustMerged =>
     LET before == LastEvent.reads
         ret == LastEvent.ret
         nested == ModelWrapper(NodeOf(LastEvent).model)
     IN /\ NamesOf(Decls(nested)) \subseteq DOMAIN ret
        /\ DOMAIN Top.ctx = (DOMAIN before) \cup (DOMAIN ret)
        /\ \A n \in DOMAIN ret : Top.ctx[n] = ret[n]
        /\ \A n \in (DOMAIN before) \ (DOMAIN ret) : Top.ctx[n] = before[n]

\* one merge added a name, changed an entry that is no output of the partition
\* node, and kept an entry the nested graph does not have
C8_Witness ==
  /\ JustMerged
  /\ \E n \in DOMAIN Top.ctx : n \notin DOMAIN LastEvent.reads /\ n \notin Range(NodeOf(LastEvent).output)
  /\ \E n \in DOMAIN LastEvent.reads : n \notin Range(NodeOf(LastEvent).output) /\ Top.ctx[n] # LastEvent.reads[n]
  /\ \E n \in DOMAIN LastEvent.reads : n \notin DOMAIN LastEvent.ret /\ Top.ctx[n] = LastEvent.reads[n]

\* C9: every dispatched node took the one branch of the decision table:
\* partition marker first, whatever the domain; else the custom domain; else
\* the generic backend.  A custom-domain node without a handler ends the call
\* with the lookup failure and never reaches the generic backend.
Branch(node) == IF node.op_type = PartitionOp THEN "partition" ELSE IF node.domain = CustomDomain THEN "custom" ELSE "generic"
C9_OneBranchPerNode ==
  /\ \A j \in DOMAIN log : log[j].kind = "node" => log[j].branch = Branch(NodeOf(log[j]))
  /\ \A j \in DOMAIN log : \A k \in DOMAIN log :
       (j < k /\ log[j].kind = "node" /\ log[k].kind = "node" /\ SameCall(j, k)) => log[j].idx # log[k].idx
  /\ \A j \in DOMAIN log :
       (log[j].kind = "node" /\ NodeOf(log[j]).domain = CustomDomain /\ ~IsPartition(NodeOf(log[j]))
          /\ NodeOf(log[j]).op_type \notin RegisteredOps) =>
             /\ j = Len(log)
             /\ pc = "failed" /\ err.kind = "UnresolvedOperator"
             /\ Top.idx = log[j].idx

\* the lookup of a custom-domain node failed
C9_Witness ==
  /\ pc = "failed" /\ err.kind = "UnresolvedOperator"
  /\ LastEvent.branch = "custom" /\ NodeOf(LastEvent).domain = CustomDomain

\* C10: a failing dispatch ends the top-level call at once: nothing is
\* dispatched after it (no step leaves a failed call), nothing is returned, and
\* the step that fails leaves every caller's context as it was and, in the
\* failing call's context, every entry that is no output of the failing node.
FailingStepKeepsContexts ==
  /\ Len(stack') >= Len(stack)
  /\ \A d \in 1..(Len(stack) - 1) : stack'[d] = stack[d]
  /\ stack'[Len(stack)].idx = Top.idx
  /\ DOMAIN stack'[Len(stack)].ctx = DOMAIN Top.ctx
  /\ \A n \in DOMAIN Top.ctx : n \notin Range(CurNode.output) => stack'[Len(stack)].ctx[n] = Top.ctx[n]
  /\ IsPartition(CurNode) => stack'[Len(stack)] = Top
C10_FailFast ==
  [][/\ pc # "failed"
     /\ pc' = "failed" => result' = EmptyDict
     /\ (AtNode /\ pc' = "failed") => FailingStepKeepsContexts]_vars

\* a node of a nested graph failed while the parent context holds what an
\* earlier parent node wrote
C10_Witness ==
  /\ pc = "failed" /\ Len(stack) = 2 /\ stack[2].stage = "nodes"
  /\ log[1].kind = "node" /\ log[1].branch = "generic" /\ log[1].depth = 1
  /\ \E i \in DOMAIN log[1].node_outputs :
       /\ log[1].output_list[i].val = 1
       /\ stack[1].ctx[log[1].node_outputs[i].name] = log[1].output_list[i]

\* C11: a top-level call on a graph with a tensor of unspecified shape fails
\* with IncompleteSpecification before anything else: no context was
\* allocated, nothing was bound, dispatched, offloaded or returned.  The check
\* is the first thing every execute_onnx call does and each call makes it once,
\* on its own graph: the top-level graph first, then one per partition node
\* dispatched.
PartitionEvents == SelectSeq(log, LAMBDA e : e.kind = "node" /\ e.branch = "partition")
C11_IncompleteSpecificationFirst ==
  pc # "idle" =>
     /\ checks # <<>> /\ checks[1] = args.model
     /\ Len(checks) = 1 + Len(PartitionEvents)
     /\ \A i \in DOMAIN PartitionEvents : checks[i + 1] = NodeOf(PartitionEvents[i]).model
     /\ (\E i \in DOMAIN Decls(ArgGraph) : Decls(ArgGraph)[i].shape = 0) =>
          /\ pc = "failed" /\ err.kind = "IncompleteSpecification"
          /\ stack = <<>>
          /\ log = <<>>
          /\ result = EmptyDict
          /\ checks = <<args.model>>

\* the graph has an unspecified shape and the call was given an input whose
\* shape would not match either
C11_Witness ==
  /\ pc = "failed" /\ err.kind = "IncompleteSpecification" /\ checks = <<args.model>>
  /\ \E n \in DOMAIN args.input_dict : n \in NamesOf(Decls(ArgGraph)) /\ args.input_dict[n].shape # DeclShape(ArgGraph, n)
\* the strategy an event of the log belongs to, and the one a flag selects
EventStrategy(e) ==
  CASE e.kind \in {"node", "merge"} -> "node_by_node"
    [] e.kind = "remote_exec" -> "remote_offload"
    [] e.kind = "rtlsim_exec" -> "simulation_offload"
FlagStrategy(mode) ==
  CASE mode \in {None, ""} -> "node_by_node"
    [] mode = "remote_pynq" -> "remote_offload"
    [] mode = "rtlsim" -> "simulation_offload"
    [] OTHER -> "none"

\* C12 (as stated): all the work done during one top-level call, nested graphs
\* included, uses the single strategy the top-level graph's flag selects.
C12_SingleStrategyPerTopLevelCall ==
  pc # "idle" => \A j \in DOMAIN log : EventStrategy(log[j]) = FlagStrategy(ArgMode)

\* C12 (amended): every execute_onnx call, top-level or nested, selects its
\* strategy before any of its work, from its own graph's flag, and all the
\* work of that one call uses that strategy; the work of a nested call belongs
\* to the graph its partition node names and follows that graph's flag.
C12_OneStrategyPerCall ==
  pc # "idle" =>
     /\ \A j \in DOMAIN log : \A k \in DOMAIN log :
          (j <= k /\ SameCall(j, k)) =>
             /\ log[j].model = log[k].model
             /\ EventStrategy(log[j]) = EventStrategy(log[k])
             /\ EventStrategy(log[k]) = FlagStrategy(ModelWrapper(log[k].model).exec_mode)
     /\ \A k \in DOMAIN log :
          log[k].depth > 1 =>
             \E j \in 1..(k - 1) :
                /\ log[j].depth = log[k].depth - 1
                /\ \A i \in (j + 1)..k : log[i].depth >= log[k].depth
                /\ log[j].kind = "node" /\ log[j].branch = "partition"
                /\ NodeOf(log[j]).model = log[k].model
     /\ (Running /\ Top.stage = "mode") =>
          \/ Depth = 1 /\ log = <<>>
          \/ Depth > 1 /\ LastEvent.kind = "node" /\ LastEvent.branch = "partition" /\ LastEvent.depth = Depth - 1

\* a node-by-node top-level call returned after its partition node's graph
\* was handed to the simulation collaborator
C12_Witness ==
  /\ pc = "done" /\ ArgMode = None
  /\ \E j \in DOMAIN log : \E k \in DOMAIN log :
       /\ j < k
       /\ log[j].depth = 1 /\ log[j].kind = "node" /\ log[j].branch = "partition"
       /\ log[k].depth = 2 /\ log[k].kind = "rtlsim_exec"
\* the graphs C13 is about: node-by-node, every node generic or a partition
\* node over such a graph; and the <<name, shape>> pairs such a graph or the
\* graphs nested in it declare
RECURSIVE PureGraph(_)
PureGraph(m) ==
  LET graph == ModelWrapper(m)
  IN /\ graph.exec_mode \in {None, ""}
     /\ \A i \in DOMAIN graph.node :
          \/ graph.node[i].op_type # PartitionOp /\ graph.node[i].domain # CustomDomain
          \/ graph.node[i].op_type = PartitionOp /\ PureGraph(graph.node[i].model)
RECURSIVE Declared(_)
Declared(m) ==
  LET graph == ModelWrapper(m)
  IN {<<d.name, d.shape>> : d \in Range(Decls(graph))}
       \cup UNION {Declared(graph.node[i].model) : i \in {i \in DOMAIN graph.node : graph.node[i].op_type = PartitionOp}}
HasDeclaredShapes(m, ctx) ==
  \A n \in DOMAIN ctx :
     IF \E d \in Range(Decls(ModelWrapper(m))) : d.name = n
     THEN \A d \in Range(Decls(ModelWrapper(m))) : d.name = n => ctx[n].shape = d.shape
     ELSE <<n, ctx[n].shape>> \in Declared(m)

\* C13: during a node-by-node execution of a graph of generic and partition
\* nodes, every entry of every active call's context has the shape its graph
\* declares for the name (an entry merged from a nested graph under a name the
\* graph does not declare: the shape the nested graph declares), whatever the
\* backend returns and whatever is bound; so has every returned tensor.
C13_ShapesKept ==
  (pc # "idle" /\ PureGraph(args.model)) =>
     /\ \A i \in DOMAIN stack : HasDeclaredShapes(stack[i].model, stack[i].ctx)
     /\ pc = "done" => HasDeclaredShapes(args.model, result)

\* a call with an empty binding returned its outputs after a nested graph wrote
\* its results into the parent context
C13_Witness ==
  /\ pc = "done" /\ PureGraph(args.model) /\ args.input_dict = EmptyDict
  /\ \E j \in DOMAIN log : log[j].kind = "merge" /\ log[j].depth = 1
  /\ result # EmptyDict
  /\ HasDeclaredShapes(args.model, result)
\* the names bound by the caller that the top-level context does not have
AbsentNames == DOMAIN args.input_dict \ DOMAIN make_empty_exec_context(ArgGraph)

\* C14: a binding under a name the context does not have is ignored: it is
\* never the cause of the binding error, the context after binding is the fresh
\* context with exactly the provided names it has replaced (what the same call
\* without the absent bindings builds), and a name that neither the graph nor
\* a nested graph declares is in no context and in no result, full or not.
C14_AbsentBindingIgnored ==
  pc # "idle" =>
     LET fresh == make_empty_exec_context(ArgGraph)
         undeclared == {n \in AbsentNames : \A d \in Declared(args.model) : d[1] # n}
     IN /\ (err.kind = "ShapeMismatch" /\ Len(stack) = 1) =>
             /\ err.name \notin AbsentNames
             /\ DOMAIN Top.ctx = DOMAIN fresh
        /\ (Len(stack) = 1 /\ Top.stage = "mode") =>
             /\ DOMAIN Top.ctx = DOMAIN fresh
             /\ \A n \in DOMAIN fresh :
                  Top.ctx[n] = IF n \in DOMAIN args.input_dict THEN args.input_dict[n] ELSE fresh[n]
        /\ \A i \in DOMAIN stack : DOMAIN stack[i].ctx \cap undeclared = {}
        /\ DOMAIN result \cap undeclared = {}

\* a call asked for its full context returned it after binding one name the
\* context has and ignoring one it does not have
C14_Witness ==
  /\ pc = "done" /\ args.full
  /\ "q" \in AbsentNames /\ "q" \notin DOMAIN result
  /\ \E n \in DOMAIN args.input_dict : n \in DOMAIN result
\* the generic node just dispatched failed on an output whose returned buffer
\* has another shape than the context entry of its name
OutputShapeDisagreed ==
  /\ pc = "failed" /\ log # <<>>
  /\ LastEvent.kind = "node" /\ LastEvent.branch = "generic" /\ LastEvent.depth = Depth
  /\ \E i \in DOMAIN LastEvent.node_outputs :
       /\ LastEvent.node_outputs[i].name = err.name
       /\ err.name \in DOMAIN Top.ctx
       /\ LastEvent.output_list[i].shape # Top.ctx[err.name].shape

\* C15 (as stated): a generic node whose backend returns a buffer of another
\* shape than the context entry fails with the ShapeMismatch error, and the
\* entry keeps its shape.
C15_OutputShapeMismatchReported ==
  OutputShapeDisagreed =>
     /\ err.kind = "ShapeMismatch"
     /\ Top.ctx[err.name].shape = DeclShape(TopGraph, err.name)
\* the partition node dispatched at log[j] has not returned
OpenPartition(j) ==
  /\ log[j].kind = "node" /\ log[j].branch = "partition"
  /\ \A k \in DOMAIN log : (k > j /\ log[k].kind = "merge") => log[k].depth # log[j].depth

\* C20: as long as the nested execution of a partition node has not returned,
\* and for good when it fails (at its shape check, at its binding, at its mode
\* selection or in one of its nodes), the context of the call that dispatched
\* the partition node is the one it had at the dispatch: same keys, same
\* entries; the call is still at that node.
C20_NestedFailureKeepsParent ==
  \A j \in DOMAIN log :
     OpenPartition(j) =>
        /\ Len(stack) >= log[j].depth
        /\ stack[log[j].depth].model = log[j].model
        /\ stack[log[j].depth].idx = log[j].idx
        /\ stack[log[j].depth].ctx = log[j].context
        /\ pc \in {"running", "failed"}

\* a nested node failed after an earlier nested node had stored a buffer under
\* a name the parent context has with another value
C20_Witness ==
  /\ pc = "failed" /\ Len(stack) = 2 /\ stack[2].stage = "nodes" /\ stack[2].idx > 1
  /\ OpenPartition(Len(log) - stack[2].idx)
  /\ \E n \in DOMAIN stack[1].ctx \cap DOMAIN stack[2].ctx : stack[1].ctx[n] # stack[2].ctx[n]
\* execute_onnx_and_make_model has returned its new graph
Made == outer.op = "execute_onnx_and_make_model" /\ outer.phase \in {"returned", "replay"}

C19_NoDuplicateDeclarations ==
  \A j \in DOMAIN log :
     (log[j].kind = "node" /\ log[j].branch = "generic") =>
        LET node_inputs == SubgraphInputs(NodeOf(log[j]), ModelWrapper(log[j].model))
            node_outputs == log[j].node_outputs
        IN /\ \A a \in DOMAIN node_inputs : \A b \in DOMAIN node_inputs :
                a # b => node_inputs[a].name # node_inputs[b].name
           /\ \A a \in DOMAIN node_outputs : \A b \in DOMAIN node_outputs :
                a # b => node_outputs[a].name # node_outputs[b].name
\* the materialized graph was executed to its end, one way or the other
Replayed == outer.op = "execute_onnx_and_make_model" /\ outer.phase = "replay" /\ pc \in {"done", "failed"}

OneShapePerName(m) == \A d \in Declared(m) : \A e \in Declared(m) : d[1] = e[1] => d[2] = e[2]

\* no node of the original run read an entry that was replaced afterwards:
\* what each node read is what the final context holds
NoStaleRead ==
  \A j \in 1..outer.mark :
     log[j].kind = "node" => \A n \in DOMAIN log[j].reads : n \in DOMAIN outer.first /\ log[j].reads[n] = outer.first[n]

Compared == outer.op = "compare_execution" /\ outer.phase = "returned" /\ outer.verdict \in {"true", "false"}

\* C18 (as stated, last part): one graph of generic and partition nodes
\* compared with itself on one input binding is found equal.
C18_IdenticalGraphsEqual ==
  (Compared /\ outer.model = outer.model_b /\ PureGraph(outer.model)) => outer.verdict = "true"

\* C18 (amended): compare_execution runs graph A and then graph B on the input
\* binding it was given, both for their declared outputs only; its verdict is
\* the predicate applied to the value A's result has for A's first declared
\* output and the value B's result has for B's first declared output, so it is
\* the same whatever the other outputs hold; the default predicate holds of
\* two buffers of one shape if their values agree and are no not-a-number, so
\* one graph of generic and partition nodes compared with itself yields twice
\* the same first output and is found equal unless that output holds a
\* not-a-number.
C18_FirstOutputsCompared ==
  /\ (outer.op = "compare_execution" /\ outer.phase \in {"a", "b"}) =>
        /\ ~args.full /\ args.input_dict = outer.input_dict
        /\ args.model = (IF outer.phase = "a" THEN outer.model ELSE outer.model_b)
        /\ stack # <<>> => ~stack[1].full
  /\ Compared =>
        LET graph_a == ModelWrapper(outer.model)
            graph_b == ModelWrapper(outer.model_b)
            a == outer.first[graph_a.output[1].name]
            b == result[graph_b.output[1].name]
        IN /\ DOMAIN outer.first = NamesOf(graph_a.output)
           /\ DOMAIN result = NamesOf(graph_b.output)
           /\ a.shape = b.shape => (outer.verdict = "true" <=> (a.val = b.val /\ a.val # NaN))
           /\ (outer.model = outer.model_b /\ PureGraph(outer.model)) =>
                 /\ a = b
                 /\ outer.verdict = "true" <=> a.val # NaN

\* two graphs whose first outputs agree and whose second outputs differ were
\* found equal
C18_Witness ==
  /\ Compared /\ outer.verdict = "true"
  /\ Len(ModelWrapper(outer.model).output) = 2 /\ Len(ModelWrapper(outer.model_b).output) = 2
  /\ outer.first[ModelWrapper(outer.model).output[2].name] # result[ModelWrapper(outer.model_b).output[2].name]
====
